---------------------------- MODULE Spec2Model ----------------------------
(***************************************************************************)
(* A model of singer-rust: the Singer message model and its line           *)
(* dispatcher (singer_rust), the schema translation and the batched        *)
(* Parquet sinks (singer_arrow), and the diagnostic consumer               *)
(* (singer_summarize).                                                     *)
(*                                                                         *)
(* Text is a TLA+ string.  A JSON value (serde_json::Value) is a record    *)
(* [k, v]: k names the kind, v holds the payload.  A Result is a record    *)
(* with ok = TRUE (and val) or ok = FALSE (and err, the Error variant).    *)
(***************************************************************************)
EXTENDS Integers, Sequences, FiniteSets, TLC

(***************************************************************************)
(* Bounds of the model.                                                    *)
(***************************************************************************)
\* The largest batch_size a sink is constructed with (0 is a legal usize).
MaxBatchSize == 3
\* The number of RECORD messages one run passes to add_record.
MaxRecords == 3
\* The number of lines of one dispatcher input.
MaxLines == 3
\* The largest version of an encoded message.
MaxVersion == 1

(***************************************************************************)
(* serde_json::Value                                                       *)
(***************************************************************************)
JNull == [k |-> "null", v |-> 0]
JBool(b) == [k |-> "bool", v |-> b]
JNum(n) == [k |-> "num", v |-> n]
JStr(s) == [k |-> "str", v |-> s]
JArr(items) == [k |-> "arr", v |-> items]
\* An object: v is a function from its keys (strings) to values.
JObj(map) == [k |-> "obj", v |-> map]

\* Option<T>
None == [some |-> FALSE, v |-> 0]
Some(x) == [some |-> TRUE, v |-> x]

\* Result<T, E>
Ok(x) == [ok |-> TRUE, err |-> "none", val |-> x]
Err(kind) == [ok |-> FALSE, err |-> kind, val |-> 0]

\* The keys the model's JSON objects use, in ascending order: serde_json's
\* Map is a BTreeMap, which iterates its keys in ascending order.
KeyOrder ==
    <<"bookmark_properties", "compression", "encoding", "format", "id",
      "key_properties", "manifest", "name", "properties", "record", "schema",
      "stream", "time_extracted", "type", "value", "version">>

\* Map::iter of an object value: its keys in the map's iteration order.
MapKeys(map) == SelectSeq(KeyOrder, LAMBDA key : key \in DOMAIN map)

\* Value::get(&str): the member of an object, None for a missing key and
\* for every value that is not an object.
ValueGet(value, key) ==
    IF value.k = "obj" /\ key \in DOMAIN value.v THEN Some(value.v[key]) ELSE None

\* Value::as_str
ValueAsStr(value) == IF value.k = "str" THEN Some(value.v) ELSE None

\* Value::as_object
ValueAsObject(value) == IF value.k = "obj" THEN Some(value.v) ELSE None

Digits == <<"0", "1", "2", "3", "4", "5", "6", "7", "8", "9">>

RECURSIVE NatText(_)
NatText(n) ==
    IF n < 10 THEN Digits[n + 1] ELSE NatText(n \div 10) \o Digits[(n % 10) + 1]

\* The text of an integer number.
NumText(n) == IF n < 0 THEN "-" \o NatText(0 - n) ELSE NatText(n)

RECURSIVE EscapeText(_)
\* The body of a JSON string literal: a quote and a backslash are escaped.
EscapeText(s) ==
    IF Len(s) = 0 THEN ""
    ELSE LET c == SubSeq(s, 1, 1)
             e == IF c = "\"" THEN "\\\""
                  ELSE IF c = "\\" THEN "\\\\"
                  ELSE c
         IN  e \o EscapeText(SubSeq(s, 2, Len(s)))

\* A JSON string literal: the escaped content between quotes.
QuoteText(s) == "\"" \o EscapeText(s) \o "\""

RECURSIVE ValueToString(_)
RECURSIVE JoinItems(_)
RECURSIVE JoinMembers(_, _)
\* The items of an array, each as compact JSON, separated by commas.
JoinItems(items) ==
    IF Len(items) = 0 THEN ""
    ELSE IF Len(items) = 1 THEN ValueToString(items[1])
    ELSE ValueToString(items[1]) \o "," \o JoinItems(Tail(items))

\* The members of an object, "key":value, separated by commas.
JoinMembers(map, keys) ==
    IF Len(keys) = 0 THEN ""
    ELSE LET m == QuoteText(keys[1]) \o ":" \o ValueToString(map[keys[1]])
         IN  IF Len(keys) = 1 THEN m ELSE m \o "," \o JoinMembers(map, Tail(keys))

\* Value's Display (to_string): the value as compact JSON text, so a string
\* is written as a JSON string literal, quotes included.
ValueToString(value) ==
    CASE value.k = "null" -> "null"
      [] value.k = "bool" -> (IF value.v THEN "true" ELSE "false")
      [] value.k = "num"  -> NumText(value.v)
      [] value.k = "str"  -> QuoteText(value.v)
      [] value.k = "arr"  -> "[" \o JoinItems(value.v) \o "]"
      [] value.k = "obj"  -> "{" \o JoinMembers(value.v, MapKeys(value.v)) \o "}"

(***************************************************************************)
(* singer_rust::message::Message                                           *)
(***************************************************************************)
BatchEncoding(format, compression) == [format |-> format, compression |-> compression]

Message_ACTIVATE_VERSION(stream, version) ==
    [type |-> "ACTIVATE_VERSION", stream |-> stream, version |-> version]

Message_BATCH(stream, manifest, encoding) ==
    [type |-> "BATCH", stream |-> stream, manifest |-> manifest, encoding |-> encoding]

Message_RECORD(stream, record, time_extracted, version) ==
    [type |-> "RECORD", stream |-> stream, record |-> record,
     time_extracted |-> time_extracted, version |-> version]

Message_SCHEMA(stream, schema, key_properties, bookmark_properties) ==
    [type |-> "SCHEMA", stream |-> stream, schema |-> schema,
     key_properties |-> key_properties, bookmark_properties |-> bookmark_properties]

Message_STATE(value) == [type |-> "STATE", value |-> value]

(***************************************************************************)
(* Decoding a line: serde_json::from_str::<Message>.  A line is a JSON     *)
(* value, or text that is not JSON (k = "garbage").  Message is internally *)
(* tagged by "type"; the model's lines are objects or garbage.             *)
(***************************************************************************)
GarbageLine == [k |-> "garbage", v |-> 0]

\* A String field: the member must be there and be a string.
DecodeString(object, key) ==
    IF key \in DOMAIN object /\ object[key].k = "str"
    THEN Ok(object[key].v) ELSE Err("Decode")

\* A u64 field: the member must be there and be a non-negative integer.
DecodeU64(object, key) ==
    IF key \in DOMAIN object /\ object[key].k = "num" /\ object[key].v >= 0
    THEN Ok(object[key].v) ELSE Err("Decode")

\* A u64 field with #[serde(default)]: 0 when the member is missing.
DecodeU64OrDefault(object, key) ==
    IF key \notin DOMAIN object THEN Ok(0) ELSE DecodeU64(object, key)

\* A serde_json::Value field: the member must be there, whatever it is.
DecodeValue(object, key) ==
    IF key \in DOMAIN object THEN Ok(object[key]) ELSE Err("Decode")

\* An Option<String> field as it would be if a null member were an error.
DecodeOptionString_NullRejected(object, key) ==
    IF key \notin DOMAIN object THEN Ok(None)
    ELSE IF object[key].k = "str" THEN Ok(Some(object[key].v))
    ELSE Err("Decode")

\* An Option<String> field: None when the member is missing or null.
DecodeOptionString(object, key) ==
    IF key \notin DOMAIN object \/ object[key].k = "null" THEN Ok(None)
    ELSE IF object[key].k = "str" THEN Ok(Some(object[key].v))
    ELSE Err("Decode")

\* A Vec<String> field: the member must be an array of strings.
DecodeStringVec(object, key) ==
    IF /\ key \in DOMAIN object
       /\ object[key].k = "arr"
       /\ \A i \in 1..Len(object[key].v) : object[key].v[i].k = "str"
    THEN Ok([i \in 1..Len(object[key].v) |-> object[key].v[i].v])
    ELSE Err("Decode")

\* A Vec<String> field as it would be without #[serde(default)].
DecodeStringVecOrDefault_Required(object, key) ==
    IF /\ key \in DOMAIN object
       /\ object[key].k = "arr"
       /\ \A i \in 1..Len(object[key].v) : object[key].v[i].k = "str"
    THEN Ok([i \in 1..Len(object[key].v) |-> object[key].v[i].v])
    ELSE Err("Decode")

\* A Vec<String> field with #[serde(default)]: empty when the member is missing.
DecodeStringVecOrDefault(object, key) ==
    IF key \notin DOMAIN object THEN Ok(<<>>) ELSE DecodeStringVec(object, key)

\* A BatchEncoding field: an object with the strings format and compression.
DecodeBatchEncoding(object, key) ==
    IF key \in DOMAIN object /\ object[key].k = "obj"
    THEN LET format == DecodeString(object[key].v, "format")
             compression == DecodeString(object[key].v, "compression")
         IN  IF format.ok /\ compression.ok
             THEN Ok(BatchEncoding(format.val, compression.val))
             ELSE Err("Decode")
    ELSE Err("Decode")

DecodeActivateVersion(object) ==
    LET stream == DecodeString(object, "stream")
        version == DecodeU64(object, "version")
    IN  IF stream.ok /\ version.ok
        THEN Ok(Message_ACTIVATE_VERSION(stream.val, version.val))
        ELSE Err("Decode")

DecodeBatch(object) ==
    LET stream == DecodeString(object, "stream")
        manifest == DecodeStringVec(object, "manifest")
        encoding == DecodeBatchEncoding(object, "encoding")
    IN  IF stream.ok /\ manifest.ok /\ encoding.ok
        THEN Ok(Message_BATCH(stream.val, manifest.val, encoding.val))
        ELSE Err("Decode")

DecodeRecord(object) ==
    LET stream == DecodeString(object, "stream")
        record == DecodeValue(object, "record")
        time_extracted == DecodeOptionString(object, "time_extracted")
        version == DecodeU64OrDefault(object, "version")
    IN  IF stream.ok /\ record.ok /\ time_extracted.ok /\ version.ok
        THEN Ok(Message_RECORD(stream.val, record.val, time_extracted.val, version.val))
        ELSE Err("Decode")

DecodeSchema(object) ==
    LET stream == DecodeString(object, "stream")
        schema == DecodeValue(object, "schema")
        key_properties == DecodeStringVecOrDefault(object, "key_properties")
        bookmark_properties == DecodeStringVecOrDefault(object, "bookmark_properties")
    IN  IF stream.ok /\ schema.ok /\ key_properties.ok /\ bookmark_properties.ok
        THEN Ok(Message_SCHEMA(stream.val, schema.val, key_properties.val,
                               bookmark_properties.val))
        ELSE Err("Decode")

DecodeState(object) ==
    LET value == DecodeValue(object, "value")
    IN  IF value.ok THEN Ok(Message_STATE(value.val)) ELSE Err("Decode")

\* from_string as it would be if a line without a known tag were taken for
\* a STATE without value.
from_string_DefaultVariant(line) ==
    IF line.k # "obj" THEN Err("Decode")
    ELSE LET tag == DecodeString(line.v, "type")
         IN  IF ~tag.ok THEN Ok(Message_STATE(JNull))
             ELSE CASE tag.val = "ACTIVATE_VERSION" -> DecodeActivateVersion(line.v)
                    [] tag.val = "BATCH" -> DecodeBatch(line.v)
                    [] tag.val = "RECORD" -> DecodeRecord(line.v)
                    [] tag.val = "SCHEMA" -> DecodeSchema(line.v)
                    [] tag.val = "STATE" -> DecodeState(line.v)
                    [] OTHER -> Ok(Message_STATE(JNull))

\* Message::from_string, serde_json::from_str: the variant is the one the
\* "type" member names; a missing or unknown tag is an error.
from_string(line) ==
    IF line.k # "obj" THEN Err("Decode")
    ELSE LET tag == DecodeString(line.v, "type")
         IN  IF ~tag.ok THEN Err("Decode")
             ELSE CASE tag.val = "ACTIVATE_VERSION" -> DecodeActivateVersion(line.v)
                    [] tag.val = "BATCH" -> DecodeBatch(line.v)
                    [] tag.val = "RECORD" -> DecodeRecord(line.v)
                    [] tag.val = "SCHEMA" -> DecodeSchema(line.v)
                    [] tag.val = "STATE" -> DecodeState(line.v)
                    [] OTHER -> Err("Decode")

(***************************************************************************)
(* Encoding a message: serde_json::to_string(&Message).  The line is kept  *)
(* as the JSON value its text denotes: an object with the tag under "type" *)
(* and one member per field of the variant, none skipped.                  *)
(***************************************************************************)
\* Serialize for Vec<String>: an array of strings.
EncodeStringVec(items) == JArr([i \in 1..Len(items) |-> JStr(items[i])])

\* Serialize for Option<String>: null for None, the string for Some.
EncodeOptionString(option) == IF option.some THEN JStr(option.v) ELSE JNull

\* Serialize for BatchEncoding
EncodeBatchEncoding(encoding) ==
    JObj([format |-> JStr(encoding.format), compression |-> JStr(encoding.compression)])

\* Message::to_string
to_string(self) ==
    CASE self.type = "ACTIVATE_VERSION" ->
            Ok(JObj([type |-> JStr("ACTIVATE_VERSION"), stream |-> JStr(self.stream),
                     version |-> JNum(self.version)]))
      [] self.type = "BATCH" ->
            Ok(JObj([type |-> JStr("BATCH"), stream |-> JStr(self.stream),
                     manifest |-> EncodeStringVec(self.manifest),
                     encoding |-> EncodeBatchEncoding(self.encoding)]))
      [] self.type = "RECORD" ->
            Ok(JObj([type |-> JStr("RECORD"), stream |-> JStr(self.stream),
                     record |-> self.record,
                     time_extracted |-> EncodeOptionString(self.time_extracted),
                     version |-> JNum(self.version)]))
      [] self.type = "SCHEMA" ->
            Ok(JObj([type |-> JStr("SCHEMA"), stream |-> JStr(self.stream),
                     schema |-> self.schema,
                     key_properties |-> EncodeStringVec(self.key_properties),
                     bookmark_properties |-> EncodeStringVec(self.bookmark_properties)]))
      [] self.type = "STATE" ->
            Ok(JObj([type |-> JStr("STATE"), value |-> self.value]))

(***************************************************************************)
(* singer_summarize::StatsReader, the consumer of the dispatcher's hooks.  *)
(* stats.streams maps each stream seen to its Counter.                     *)
(***************************************************************************)
Counter_new == [schema |-> 0, record |-> 0, activate_version |-> 0, batch |-> 0]

Stats_new == [streams |-> [key \in {} |-> Counter_new], state |-> [count |-> 0, last_seen |-> JNull]]

\* streams.entry(stream).or_insert_with(Counter::new)
EntryOrInsert(streams, stream) ==
    IF stream \in DOMAIN streams THEN streams
    ELSE [key \in DOMAIN streams \cup {stream} |->
             IF key = stream THEN Counter_new ELSE streams[key]]

\* What a hook leaves: the reader, its result, and the hook that ran.
Hooked(self, res, hook) == [self |-> self, res |-> res, hook |-> hook]

process_record(self, stream, record, time_extracted, version) ==
    LET streams == EntryOrInsert(self.streams, stream)
    IN  Hooked([self EXCEPT !.streams = [streams EXCEPT ![stream].record = @ + 1]],
               Ok(0), "process_record")

\* process_schema as it would be if it counted the message as a record.
process_schema_CountsRecord(self, stream, schema, key_properties, bookmark_properties) ==
    LET streams == EntryOrInsert(self.streams, stream)
    IN  Hooked([self EXCEPT !.streams = [streams EXCEPT ![stream].record = @ + 1]],
               Ok(0), "process_schema")

process_schema(self, stream, schema, key_properties, bookmark_properties) ==
    LET streams == EntryOrInsert(self.streams, stream)
    IN  Hooked([self EXCEPT !.streams = [streams EXCEPT ![stream].schema = @ + 1]],
               Ok(0), "process_schema")

process_activate_version(self, stream, version) ==
    LET streams == EntryOrInsert(self.streams, stream)
    IN  Hooked([self EXCEPT !.streams =
                   [streams EXCEPT ![stream].activate_version = @ + 1]],
               Ok(0), "process_activate_version")

process_batch(self, stream, manifest, encoding) ==
    LET streams == EntryOrInsert(self.streams, stream)
    IN  Hooked([self EXCEPT !.streams = [streams EXCEPT ![stream].batch = @ + 1]],
               Ok(0), "process_batch")

\* process_state as it would be if it kept the first value it saw.
process_state_FirstWins(self, value) ==
    Hooked([self EXCEPT !.state =
               [count |-> @.count + 1,
                last_seen |-> IF @.count = 0 THEN value ELSE @.last_seen]],
           Ok(0), "process_state")

process_state(self, value) ==
    Hooked([self EXCEPT !.state = [count |-> @.count + 1, last_seen |-> value]],
           Ok(0), "process_state")

(***************************************************************************)
(* singer_rust::message::MessageReader                                     *)
(***************************************************************************)
\* process_line as it would be with the STATE and BATCH arms exchanged.
process_line_ArmsExchanged(self, line) ==
    LET message == from_string(line)
    IN  IF ~message.ok THEN Hooked(self, Err(message.err), "none")
        ELSE LET m == message.val
             IN  CASE m.type = "RECORD" ->
                        process_record(self, m.stream, m.record, m.time_extracted,
                                       m.version)
                   [] m.type = "SCHEMA" ->
                        process_schema(self, m.stream, m.schema, m.key_properties,
                                       m.bookmark_properties)
                   [] m.type = "STATE" ->
                        process_batch(self, "", <<>>, BatchEncoding("", ""))
                   [] m.type = "ACTIVATE_VERSION" ->
                        process_activate_version(self, m.stream, m.version)
                   [] m.type = "BATCH" -> process_state(self, JStr(m.stream))

process_line(self, line) ==
    LET message == from_string(line)
    IN  IF ~message.ok THEN Hooked(self, Err(message.err), "none")
        ELSE LET m == message.val
             IN  CASE m.type = "RECORD" ->
                        process_record(self, m.stream, m.record, m.time_extracted,
                                       m.version)
                   [] m.type = "SCHEMA" ->
                        process_schema(self, m.stream, m.schema, m.key_properties,
                                       m.bookmark_properties)
                   [] m.type = "STATE" -> process_state(self, m.value)
                   [] m.type = "ACTIVATE_VERSION" ->
                        process_activate_version(self, m.stream, m.version)
                   [] m.type = "BATCH" ->
                        process_batch(self, m.stream, m.manifest, m.encoding)

(***************************************************************************)
(* singer_arrow: schema translation                                        *)
(***************************************************************************)
\* arrow's Field::new(name, data_type, nullable)
Field(name, data_type, nullable) ==
    [name |-> name, data_type |-> data_type, nullable |-> nullable]

\* json_type_to_arrow as it would be if "number" were a 64-bit integer.
json_type_to_arrow_NumberAsInteger(type_obj) ==
    LET type_str == ValueAsStr(type_obj)
    IN  IF ~type_str.some THEN Err("TypeConversion")
        ELSE CASE type_str.v = "string"  -> Ok("Utf8")
               [] type_str.v = "integer" -> Ok("Int64")
               [] type_str.v = "number"  -> Ok("Int64")
               [] type_str.v = "boolean" -> Ok("Boolean")
               [] OTHER -> Err("TypeConversion")

json_type_to_arrow(type_obj) ==
    LET type_str == ValueAsStr(type_obj)
    IN  IF ~type_str.some THEN Err("TypeConversion")
        ELSE CASE type_str.v = "string"  -> Ok("Utf8")
               [] type_str.v = "integer" -> Ok("Int64")
               [] type_str.v = "number"  -> Ok("Float64")
               [] type_str.v = "boolean" -> Ok("Boolean")
               [] OTHER -> Err("TypeConversion")

\* The closure of singer_schema_to_arrow's map: one property to one Field.
PropertyToField(name, prop) ==
    LET type_value == ValueGet(prop, "type")
    IN  IF ~type_value.some THEN Err("Schema")
        ELSE LET data_type == json_type_to_arrow(type_value.v)
             IN  IF ~data_type.ok THEN Err(data_type.err)
                 ELSE Ok(Field(name, data_type.val, FALSE))

RECURSIVE CollectFields(_, _)
\* collect() into Result<Vec<Field>, Error>: the fields in iteration order,
\* or the first error.
CollectFields(map, keys) ==
    IF Len(keys) = 0 THEN Ok(<<>>)
    ELSE LET f == PropertyToField(keys[1], map[keys[1]])
         IN  IF ~f.ok THEN Err(f.err)
             ELSE LET rest == CollectFields(map, Tail(keys))
                  IN  IF ~rest.ok THEN Err(rest.err) ELSE Ok(<<f.val>> \o rest.val)

singer_schema_to_arrow(schema_msg) ==
    IF schema_msg.type # "SCHEMA" THEN Err("Schema")
    ELSE LET properties == ValueGet(schema_msg.schema, "properties")
         IN  IF ~properties.some THEN Err("Schema")
             ELSE LET object == ValueAsObject(properties.v)
                  IN  IF ~object.some THEN Err("Schema")
                      ELSE CollectFields(object.v, MapKeys(object.v))

(***************************************************************************)
(* singer_arrow: records to a RecordBatch                                  *)
(***************************************************************************)
\* One cell of a StringArray: a text or a null.
NullCell == [isnull |-> TRUE, text |-> ""]
TextCell(text) == [isnull |-> FALSE, text |-> text]

\* An arrow array: its data type and its cells.
Array(data_type, cells) == [data_type |-> data_type, cells |-> cells]

RecordBatchOf(schema, columns, num_rows) ==
    [schema |-> schema, columns |-> columns, num_rows |-> num_rows]

\* RecordBatch::new_empty: one empty array per field, of the field's type.
RecordBatch_new_empty(schema) ==
    RecordBatchOf(schema,
                  [j \in 1..Len(schema) |-> Array(schema[j].data_type, <<>>)], 0)

\* RecordBatch::try_new (arrow): the row count is the first column's length;
\* a null in a non-nullable field, columns of different lengths and a column
\* whose type is not the field's type are InvalidArgumentError.
RecordBatch_try_new(schema, columns) ==
    IF Len(schema) # Len(columns) THEN Err("Arrow")
    ELSE IF Len(columns) = 0 THEN Err("Arrow")
    ELSE LET row_count == Len(columns[1].cells)
         IN  IF \E j \in 1..Len(columns) :
                    /\ ~schema[j].nullable
                    /\ \E i \in 1..Len(columns[j].cells) : columns[j].cells[i].isnull
             THEN Err("Arrow")
             ELSE IF \E j \in 1..Len(columns) : Len(columns[j].cells) # row_count
             THEN Err("Arrow")
             ELSE IF \E j \in 1..Len(columns) : columns[j].data_type # schema[j].data_type
             THEN Err("Arrow")
             ELSE Ok(RecordBatchOf(schema, columns, row_count))

\* What the loop of to_record_batch appends to the builder of field `name`
\* for one record document.
AppendedCell(record, name) ==
    LET value == ValueGet(record, name)
    IN  IF value.some THEN TextCell(ValueToString(value.v)) ELSE NullCell

\* impl ToRecordBatch for Vec<Message>
to_record_batch(self, schema) ==
    IF Len(self) = 0 THEN Ok(RecordBatch_new_empty(schema))
    ELSE LET records == SelectSeq(self, LAMBDA msg : msg.type = "RECORD")
             \* builders: one StringBuilder per field name, finished in the
             \* schema's field order.
             arrays == [j \in 1..Len(schema) |->
                           Array("Utf8",
                                 [i \in 1..Len(records) |->
                                     AppendedCell(records[i].record, schema[j].name)])]
         IN  RecordBatch_try_new(schema, arrays)

(***************************************************************************)
(* The file system: each path holds no file, a file that was created and   *)
(* not completed (truncated or partly written), or a complete Parquet      *)
(* file with its one row group.                                            *)
(***************************************************************************)
NoBatch == RecordBatchOf(<<>>, <<>>, 0)
AbsentFile == [state |-> "absent", compression |-> "none", batch |-> NoBatch]
PartialFile == [state |-> "partial", compression |-> "none", batch |-> NoBatch]
ParquetFile(compression, batch) ==
    [state |-> "written", compression |-> compression, batch |-> batch]

\* Where a write may fail: nowhere, in File::create, in ArrowWriter::try_new,
\* in ArrowWriter::write, in ArrowWriter::close.
IoOutcomes == {"none", "create", "try_new", "write", "close"}

(***************************************************************************)
(* singer_arrow::sink::ParquetSink                                         *)
(***************************************************************************)
Sink(schema, writer_properties, output_path, batch_size, current_batch) ==
    [schema |-> schema, writer_properties |-> writer_properties,
     output_path |-> output_path, batch_size |-> batch_size,
     current_batch |-> current_batch]

\* What a call on a sink leaves: the sink, the file system, the result.
Outcome(self, fs, res) == [self |-> self, fs |-> fs, res |-> res]

ParquetSink_new(schema_message, base_dir, batch_size) ==
    IF schema_message.type # "SCHEMA" THEN Err("Schema")
    ELSE LET stream_name == schema_message.stream
             schema == singer_schema_to_arrow(schema_message)
         IN  IF ~schema.ok THEN Err(schema.err)
             ELSE Ok(Sink(schema.val, "SNAPPY",
                          base_dir \o "/" \o stream_name \o ".parquet",
                          batch_size, <<>>))

\* write_batch as it would be if it appended a row group to the file it finds.
ParquetSink_write_batch_Append(self, batch, fs, io) ==
    LET old == fs[self.output_path]
        grown == IF old.state = "written"
                 THEN RecordBatchOf(batch.schema,
                                    [j \in 1..Len(batch.columns) |->
                                        Array(batch.columns[j].data_type,
                                              old.batch.columns[j].cells
                                                  \o batch.columns[j].cells)],
                                    old.batch.num_rows + batch.num_rows)
                 ELSE batch
    IN  IF io = "create" THEN [fs |-> fs, res |-> Err("Io")]
        ELSE IF io \in {"try_new", "write", "close"}
        THEN [fs |-> [fs EXCEPT ![self.output_path] = PartialFile],
              res |-> Err("Parquet")]
        ELSE [fs |-> [fs EXCEPT ![self.output_path] =
                          ParquetFile(self.writer_properties, grown)],
              res |-> Ok(0)]

ParquetSink_write_batch(self, batch, fs, io) ==
    IF io = "create" THEN [fs |-> fs, res |-> Err("Io")]
    ELSE IF io \in {"try_new", "write", "close"}
    THEN [fs |-> [fs EXCEPT ![self.output_path] = PartialFile], res |-> Err("Parquet")]
    ELSE [fs |-> [fs EXCEPT ![self.output_path] =
                      ParquetFile(self.writer_properties, batch)],
          res |-> Ok(0)]

\* flush as it would be if it cleared the batch before writing it.
ParquetSink_flush_ClearFirst(self, fs, io) ==
    IF Len(self.current_batch) = 0 THEN Outcome(self, fs, Ok(0))
    ELSE LET batch == to_record_batch(self.current_batch, self.schema)
             cleared == [self EXCEPT !.current_batch = <<>>]
         IN  IF ~batch.ok THEN Outcome(cleared, fs, Err(batch.err))
             ELSE LET w == ParquetSink_write_batch(self, batch.val, fs, io)
                  IN  Outcome(cleared, w.fs, w.res)

\* flush as it would be without its early return on an empty batch.
ParquetSink_flush_NoEmptyCheck(self, fs, io) ==
    LET batch == to_record_batch(self.current_batch, self.schema)
    IN  IF ~batch.ok THEN Outcome(self, fs, Err(batch.err))
        ELSE LET w == ParquetSink_write_batch(self, batch.val, fs, io)
             IN  IF ~w.res.ok THEN Outcome(self, w.fs, w.res)
                 ELSE Outcome([self EXCEPT !.current_batch = <<>>], w.fs, Ok(0))

\* flush as it would be without clearing the batch after the write.
ParquetSink_flush_NoClear(self, fs, io) ==
    IF Len(self.current_batch) = 0 THEN Outcome(self, fs, Ok(0))
    ELSE LET batch == to_record_batch(self.current_batch, self.schema)
         IN  IF ~batch.ok THEN Outcome(self, fs, Err(batch.err))
             ELSE LET w == ParquetSink_write_batch(self, batch.val, fs, io)
                  IN  IF ~w.res.ok THEN Outcome(self, w.fs, w.res)
                      ELSE Outcome(self, w.fs, Ok(0))

ParquetSink_flush(self, fs, io) ==
    IF Len(self.current_batch) = 0 THEN Outcome(self, fs, Ok(0))
    ELSE LET batch == to_record_batch(self.current_batch, self.schema)
         IN  IF ~batch.ok THEN Outcome(self, fs, Err(batch.err))
             ELSE LET w == ParquetSink_write_batch(self, batch.val, fs, io)
                  IN  IF ~w.res.ok THEN Outcome(self, w.fs, w.res)
                      ELSE Outcome([self EXCEPT !.current_batch = <<>>], w.fs, Ok(0))

\* add_record as it would be if it pushed the record twice.
ParquetSink_add_record_PushTwice(self, record, fs, io) ==
    IF record.type = "RECORD"
    THEN LET pushed == [self EXCEPT !.current_batch = Append(Append(@, record), record)]
         IN  IF Len(pushed.current_batch) >= pushed.batch_size
             THEN LET f == ParquetSink_flush(pushed, fs, io)
                  IN  IF ~f.res.ok THEN f ELSE Outcome(f.self, f.fs, Ok(0))
             ELSE Outcome(pushed, fs, Ok(0))
    ELSE Outcome(self, fs, Ok(0))

\* add_record as it would be if it kept only the records of the stream its
\* file under the directory "out" is named after.
ParquetSink_add_record_OwnStreamOnly(self, record, fs, io) ==
    IF record.type = "RECORD" /\ self.output_path = "out/" \o record.stream \o ".parquet"
    THEN LET pushed == [self EXCEPT !.current_batch = Append(@, record)]
         IN  IF Len(pushed.current_batch) >= pushed.batch_size
             THEN LET f == ParquetSink_flush(pushed, fs, io)
                  IN  IF ~f.res.ok THEN f ELSE Outcome(f.self, f.fs, Ok(0))
             ELSE Outcome(pushed, fs, Ok(0))
    ELSE Outcome(self, fs, Ok(0))

\* add_record as it would be if a failed flush took the pushed record back.
ParquetSink_add_record_DropOnFailure(self, record, fs, io) ==
    IF record.type = "RECORD"
    THEN LET pushed == [self EXCEPT !.current_batch = Append(@, record)]
         IN  IF Len(pushed.current_batch) >= pushed.batch_size
             THEN LET f == ParquetSink_flush(pushed, fs, io)
                  IN  IF ~f.res.ok THEN Outcome(self, f.fs, f.res)
                      ELSE Outcome(f.self, f.fs, Ok(0))
             ELSE Outcome(pushed, fs, Ok(0))
    ELSE Outcome(self, fs, Ok(0))

\* add_record as it would be with `>` for `>=` in the threshold test.
ParquetSink_add_record_Greater(self, record, fs, io) ==
    IF record.type = "RECORD"
    THEN LET pushed == [self EXCEPT !.current_batch = Append(@, record)]
         IN  IF Len(pushed.current_batch) > pushed.batch_size
             THEN LET f == ParquetSink_flush(pushed, fs, io)
                  IN  IF ~f.res.ok THEN f ELSE Outcome(f.self, f.fs, Ok(0))
             ELSE Outcome(pushed, fs, Ok(0))
    ELSE Outcome(self, fs, Ok(0))

\* add_record as it would be if it flushed one record early.
ParquetSink_add_record_Early(self, record, fs, io) ==
    IF record.type = "RECORD"
    THEN LET pushed == [self EXCEPT !.current_batch = Append(@, record)]
         IN  IF Len(pushed.current_batch) + 1 >= pushed.batch_size
             THEN LET f == ParquetSink_flush(pushed, fs, io)
                  IN  IF ~f.res.ok THEN f ELSE Outcome(f.self, f.fs, Ok(0))
             ELSE Outcome(pushed, fs, Ok(0))
    ELSE Outcome(self, fs, Ok(0))

\* add_record as it would be with the threshold test outside the `if let`.
ParquetSink_add_record_TestOutside(self, record, fs, io) ==
    LET pushed == IF record.type = "RECORD"
                  THEN [self EXCEPT !.current_batch = Append(@, record)]
                  ELSE self
    IN  IF Len(pushed.current_batch) >= pushed.batch_size
        THEN LET f == ParquetSink_flush(pushed, fs, io)
             IN  IF ~f.res.ok THEN f ELSE Outcome(f.self, f.fs, Ok(0))
        ELSE Outcome(pushed, fs, Ok(0))

ParquetSink_add_record(self, record, fs, io) ==
    IF record.type = "RECORD"
    THEN LET pushed == [self EXCEPT !.current_batch = Append(@, record)]
         IN  IF Len(pushed.current_batch) >= pushed.batch_size
             THEN LET f == ParquetSink_flush(pushed, fs, io)
                  IN  IF ~f.res.ok THEN f ELSE Outcome(f.self, f.fs, Ok(0))
             ELSE Outcome(pushed, fs, Ok(0))
    ELSE Outcome(self, fs, Ok(0))

(***************************************************************************)
(* singer_arrow::target::ParquetTarget                                     *)
(***************************************************************************)
ParquetTarget_new(schema_message, output_path, batch_size) ==
    LET schema == singer_schema_to_arrow(schema_message)
    IN  IF ~schema.ok THEN Err(schema.err)
        ELSE Ok(Sink(schema.val, "SNAPPY", output_path, batch_size, <<>>))

ParquetTarget_write_batch(self, batch, fs, io) ==
    IF io = "create" THEN [fs |-> fs, res |-> Err("Io")]
    ELSE IF io \in {"try_new", "write", "close"}
    THEN [fs |-> [fs EXCEPT ![self.output_path] = PartialFile], res |-> Err("Parquet")]
    ELSE [fs |-> [fs EXCEPT ![self.output_path] =
                      ParquetFile(self.writer_properties, batch)],
          res |-> Ok(0)]

ParquetTarget_flush(self, fs, io) ==
    IF Len(self.current_batch) = 0 THEN Outcome(self, fs, Ok(0))
    ELSE LET batch == to_record_batch(self.current_batch, self.schema)
         IN  IF ~batch.ok THEN Outcome(self, fs, Err(batch.err))
             ELSE LET w == ParquetTarget_write_batch(self, batch.val, fs, io)
                  IN  IF ~w.res.ok THEN Outcome(self, w.fs, w.res)
                      ELSE Outcome([self EXCEPT !.current_batch = <<>>], w.fs, Ok(0))

\* The target's add_record as it would be with `>` for `>=` in its
\* threshold test.
ParquetTarget_add_record_Greater(self, record, fs, io) ==
    IF record.type = "RECORD"
    THEN LET pushed == [self EXCEPT !.current_batch = Append(@, record)]
         IN  IF Len(pushed.current_batch) > pushed.batch_size
             THEN LET f == ParquetTarget_flush(pushed, fs, io)
                  IN  IF ~f.res.ok THEN f ELSE Outcome(f.self, f.fs, Ok(0))
             ELSE Outcome(pushed, fs, Ok(0))
    ELSE Outcome(self, fs, Ok(0))

ParquetTarget_add_record(self, record, fs, io) ==
    IF record.type = "RECORD"
    THEN LET pushed == [self EXCEPT !.current_batch = Append(@, record)]
         IN  IF Len(pushed.current_batch) >= pushed.batch_size
             THEN LET f == ParquetTarget_flush(pushed, fs, io)
                  IN  IF ~f.res.ok THEN f ELSE Outcome(f.self, f.fs, Ok(0))
             ELSE Outcome(pushed, fs, Ok(0))
    ELSE Outcome(self, fs, Ok(0))

(***************************************************************************)
(* The messages and schemas the runs draw from.                            *)
(***************************************************************************)
Property(type_name) == JObj([type |-> JStr(type_name)])
SchemaDocument(properties) ==
    JObj([type |-> JStr("object"), properties |-> JObj(properties)])

SchemaIdString == Message_SCHEMA("s", SchemaDocument([id |-> Property("string")]), <<>>, <<>>)
SchemaIdNameString ==
    Message_SCHEMA("s", SchemaDocument([id |-> Property("string"),
                                        name |-> Property("string")]), <<"id">>, <<>>)
SchemaIdInteger ==
    Message_SCHEMA("s", SchemaDocument([id |-> Property("integer"),
                                        name |-> Property("string")]), <<"id">>, <<>>)
\* A SCHEMA whose document has no `properties`: construction fails on it.
SchemaNoProperties == Message_SCHEMA("s", JObj([type |-> JStr("object")]), <<>>, <<>>)

Record1 == Message_RECORD("s", JObj([id |-> JStr("1")]), None, 0)
Record2 == Message_RECORD("s", JObj([id |-> JStr("2")]), None, 0)
\* A document with every field, whose id is a number and not a string.
Record3 == Message_RECORD("t", JObj([id |-> JNum(3), name |-> JStr("Carol")]),
                          Some("2020-01-01T00:00:00Z"), 1)

StateMessage == Message_STATE(JObj([id |-> JNum(1)]))
ActivateVersionMessage == Message_ACTIVATE_VERSION("s", 1)
BatchMessage == Message_BATCH("s", <<"file1">>, BatchEncoding("jsonl", "gzip"))

\* The messages a sink is constructed from: construction succeeds on the
\* SCHEMA messages with scalar properties and fails on the others.
ConstructorMessages ==
    {SchemaIdString, SchemaIdNameString, SchemaIdInteger, SchemaNoProperties,
     StateMessage}

RecordMessages == {Record1, Record2, Record3}
OtherMessages == {SchemaIdString, StateMessage, ActivateVersionMessage, BatchMessage}

\* The lines of the dispatcher's inputs, as the JSON they hold.
LineSchema ==
    JObj([type |-> JStr("SCHEMA"), stream |-> JStr("s"),
          schema |-> SchemaDocument([id |-> Property("string")])])
LineRecordS ==
    JObj([type |-> JStr("RECORD"), stream |-> JStr("s"),
          record |-> JObj([id |-> JStr("1")])])
LineRecordT ==
    JObj([type |-> JStr("RECORD"), stream |-> JStr("t"),
          record |-> JObj([id |-> JStr("2")]), version |-> JNum(1),
          time_extracted |-> JStr("2020-01-01T00:00:00Z")])
LineState1 == JObj([type |-> JStr("STATE"), value |-> JObj([id |-> JNum(1)])])
LineState2 == JObj([type |-> JStr("STATE"), value |-> JObj([id |-> JNum(2)])])
LineActivateVersion ==
    JObj([type |-> JStr("ACTIVATE_VERSION"), stream |-> JStr("s"), version |-> JNum(1)])
LineBatch ==
    JObj([type |-> JStr("BATCH"), stream |-> JStr("t"),
          manifest |-> JArr(<<JStr("file1")>>),
          encoding |-> JObj([format |-> JStr("jsonl"), compression |-> JStr("gzip")])])
\* Lines that do not decode: an unknown tag, no tag, a RECORD without its
\* document, text that is not JSON.
LineUnknown == JObj([type |-> JStr("UNKNOWN"), value |-> JStr("unknown")])
LineNoType == JObj([stream |-> JStr("s"), record |-> JObj([id |-> JStr("1")])])
LineRecordNoDocument == JObj([type |-> JStr("RECORD"), stream |-> JStr("s")])

Lines ==
    {LineSchema, LineRecordS, LineRecordT, LineState1, LineState2,
     LineActivateVersion, LineBatch, LineUnknown, LineNoType,
     LineRecordNoDocument, GarbageLine}

\* ParquetSink joins base_dir and "<stream>.parquet"; ParquetTarget is given
\* its path.
BaseDir == "out"
TargetPath == "data.parquet"
Paths == {"out/s.parquet", "out/t.parquet", TargetPath}

(***************************************************************************)
(* The state: one sink of either draft, the file system it writes to, and  *)
(* the history of the calls made on it.                                    *)
(***************************************************************************)
VARIABLES
    kind,         \* "ParquetSink" or "ParquetTarget": the struct under test
    sink,         \* the struct's fields
    fs,           \* path -> file
    call,         \* the last call: op, kind of argument, pending count before, result
    added,        \* the RECORD messages passed to add_record, in order
    lastFlushed,  \* the records pending at the most recent successful flush
    flushCalled,  \* whether flush was called by the driver (not by add_record)
    writes,       \* the batches the successful flushes left in the file, in order
    input,        \* the lines process_lines reads
    cursor,       \* the index of the next line of the input
    reader,       \* the StatsReader's stats
    fired,        \* the hooks invoked so far, each with the index of its line
    status,       \* of process_lines: "idle", "running", "returned", "panicked"
    result,       \* what process_lines returned to its caller, None before it does
    msgIn,        \* the Message given to to_string, None when a line is given
    wire,         \* the line given to from_string, None before there is one
    decoded,      \* the result of from_string, None before it ran
    schemaIn,     \* the message given to the schema translation and to `new`
    translated,   \* the result of singer_schema_to_arrow, None before it ran
    constructed,  \* the results of ParquetSink::new and ParquetTarget::new
    target,       \* the fields of the ParquetTarget driven beside the ParquetSink
    targetFs,     \* path -> file, as the ParquetTarget leaves them
    targetRet,    \* the result of the ParquetTarget's last call
    targetWrites  \* the batches the ParquetTarget's successful flushes wrote

sinkVars == <<kind, sink, fs, call, added, lastFlushed, flushCalled, writes>>
dispatchVars == <<input, cursor, reader, fired, status, result>>
codecVars == <<msgIn, wire, decoded>>
translateVars == <<schemaIn, translated, constructed>>
twinVars == <<target, targetFs, targetRet, targetWrites>>
vars == <<sinkVars, dispatchVars, codecVars, translateVars, twinVars>>

\* No dispatcher runs.
IdleDispatch ==
    /\ input = <<>>
    /\ cursor = 1
    /\ reader = Stats_new
    /\ fired = <<>>
    /\ status = "idle"
    /\ result = None

\* Nothing is encoded or decoded.
IdleCodec ==
    /\ msgIn = None
    /\ wire = None
    /\ decoded = None

\* Nothing is translated.
IdleTranslate ==
    /\ schemaIn = None
    /\ translated = None
    /\ constructed = None

\* No sink is constructed.
IdleSink ==
    /\ kind = "none"
    /\ sink = Sink(<<>>, "none", "none", 0, <<>>)
    /\ fs = [p \in {} |-> 0]
    /\ call = [op |-> "none", arg |-> "none", pending |-> 0, ret |-> Ok(0)]
    /\ added = <<>>
    /\ lastFlushed = None
    /\ flushCalled = FALSE
    /\ writes = <<>>

\* No ParquetTarget is driven beside the sink.
IdleTwin ==
    /\ target = Sink(<<>>, "none", "none", 0, <<>>)
    /\ targetFs = [p \in {} |-> 0]
    /\ targetRet = Ok(0)
    /\ targetWrites = <<>>

\* arg is "RECORD" for a RECORD message, "other" for any other message and
\* "none" for a call without argument.
Call(op, arg, pending, ret) == [op |-> op, arg |-> arg, pending |-> pending, ret |-> ret]
ArgKind(message) == IF message.type = "RECORD" THEN "RECORD" ELSE "other"

\* The sink as constructed by either draft's `new`.
Construct(k, schema_message, batch_size) ==
    IF k = "ParquetSink" THEN ParquetSink_new(schema_message, BaseDir, batch_size)
    ELSE ParquetTarget_new(schema_message, TargetPath, batch_size)

\* add_record and flush of the draft `k`, on the sink `self`.
AddRecordOf(k, self, record, files, io) ==
    IF k = "ParquetSink" THEN ParquetSink_add_record(self, record, files, io)
    ELSE ParquetTarget_add_record(self, record, files, io)

FlushOf(k, self, files, io) ==
    IF k = "ParquetSink" THEN ParquetSink_flush(self, files, io)
    ELSE ParquetTarget_flush(self, files, io)

\* After a successful construction: nothing pending, no file opened.
InitSink ==
    /\ kind \in {"ParquetSink", "ParquetTarget"}
    /\ \E schema_message \in ConstructorMessages, batch_size \in 0..MaxBatchSize :
          LET made == Construct(kind, schema_message, batch_size)
          IN  /\ made.ok
              /\ sink = made.val
              /\ call = Call("new", ArgKind(schema_message), 0, Ok(0))
    /\ fs = [p \in Paths |-> AbsentFile]
    /\ added = <<>>
    /\ lastFlushed = None
    /\ flushCalled = FALSE
    /\ writes = <<>>

\* sink.add_record(record), whatever the write inside it does.
AddRecord ==
    \E record \in RecordMessages \cup OtherMessages, io \in IoOutcomes :
        /\ record.type = "RECORD" => Len(added) < MaxRecords
        /\ record.type # "RECORD" => io = "none"
        /\ \E out \in {AddRecordOf(kind, sink, record, fs, io)} :
           LET isRecord == record.type = "RECORD"
           IN  /\ sink' = out.self
               /\ fs' = out.fs
               /\ call' = Call("add_record", ArgKind(record), Len(sink.current_batch), out.res)
               /\ added' = IF isRecord THEN Append(added, record) ELSE added
               /\ lastFlushed' =
                     IF isRecord /\ out.res.ok /\ Len(out.self.current_batch) = 0
                     THEN Some(Append(sink.current_batch, record))
                     ELSE lastFlushed
               /\ writes' =
                     IF isRecord /\ out.res.ok /\ Len(out.self.current_batch) = 0
                     THEN Append(writes, out.fs[out.self.output_path].batch)
                     ELSE writes
        /\ UNCHANGED <<kind, flushCalled>>
        /\ UNCHANGED <<dispatchVars, codecVars, translateVars, twinVars>>

\* sink.flush(), whatever the write inside it does.
Flush ==
    \E io \in IoOutcomes :
        /\ \E out \in {FlushOf(kind, sink, fs, io)} :
               /\ sink' = out.self
               /\ fs' = out.fs
               /\ call' = Call("flush", "none", Len(sink.current_batch), out.res)
               /\ lastFlushed' =
                     IF out.res.ok /\ Len(sink.current_batch) > 0
                     THEN Some(sink.current_batch)
                     ELSE lastFlushed
               /\ writes' =
                     IF out.res.ok /\ Len(sink.current_batch) > 0
                     THEN Append(writes, out.fs[out.self.output_path].batch)
                     ELSE writes
        /\ flushCalled' = TRUE
        /\ UNCHANGED <<kind, added>>
        /\ UNCHANGED <<dispatchVars, codecVars, translateVars, twinVars>>

Init == InitSink /\ IdleDispatch /\ IdleCodec /\ IdleTranslate /\ IdleTwin

Next == AddRecord \/ Flush

\* One sink, driven by any sequence of add_record and flush calls.
Spec == Init /\ [][Next]_vars

(***************************************************************************)
(* The dispatcher: process_lines over an input, consumed by a StatsReader. *)
(***************************************************************************)
RECURSIVE SeqsUpTo(_, _)
\* The sequences of at most n elements of S.
SeqsUpTo(S, n) ==
    IF n = 0 THEN {<<>>}
    ELSE LET shorter == SeqsUpTo(S, n - 1)
         IN  shorter \cup {Append(q, x) : q \in {t \in shorter : Len(t) = n - 1}, x \in S}

\* StatsReader::new() and the call of process_lines on an input.
InitDispatch ==
    /\ input \in SeqsUpTo(Lines, MaxLines)
    /\ cursor = 1
    /\ reader = Stats_new
    /\ fired = <<>>
    /\ status = "running"
    /\ result = None
    /\ IdleSink /\ IdleTwin /\ IdleCodec /\ IdleTranslate

\* The loop of process_lines as it would be if it skipped a line that fails
\* and went on with the next.
ProcessLine_SkipAndContinue ==
    /\ status = "running"
    /\ cursor <= Len(input)
    /\ \E out \in {process_line(reader, input[cursor])} :
          /\ reader' = out.self
          /\ fired' = IF out.hook = "none" THEN fired
                      ELSE Append(fired, [hook |-> out.hook, line |-> cursor])
          /\ cursor' = cursor + 1
          /\ status' = status
    /\ UNCHANGED <<input, result, sinkVars, twinVars, codecVars, translateVars>>

\* One turn of the loop of process_lines: the next line goes through
\* process_line, and `expect` panics on its error.
ProcessLine ==
    /\ status = "running"
    /\ cursor <= Len(input)
    /\ \E out \in {process_line(reader, input[cursor])} :
          /\ reader' = out.self
          /\ fired' = IF out.hook = "none" THEN fired
                      ELSE Append(fired, [hook |-> out.hook, line |-> cursor])
          /\ IF out.res.ok
             THEN cursor' = cursor + 1 /\ status' = status
             ELSE cursor' = cursor /\ status' = "panicked"
    /\ UNCHANGED <<input, result, sinkVars, twinVars, codecVars, translateVars>>

\* The input is exhausted: process_lines returns Ok(()).
Return ==
    /\ status = "running"
    /\ cursor > Len(input)
    /\ status' = "returned"
    /\ result' = Some(Ok(0))
    /\ UNCHANGED <<input, cursor, reader, fired, sinkVars, twinVars, codecVars, translateVars>>

NextDispatch == ProcessLine \/ Return

\* One run of process_lines over any input.
SpecDispatch == InitDispatch /\ [][NextDispatch]_vars

(***************************************************************************)
(* The message codec: Message::to_string and Message::from_string on the   *)
(* constructible messages and on lines written by others.                  *)
(***************************************************************************)
CodecStreams == {"s", "t"}
CodecDocuments ==
    {JObj([id |-> JStr("1")]), JObj([id |-> JNum(3), name |-> JStr("Carol")]), JNull}
CodecKeyLists == {<<>>, <<"id">>}
CodecSchemas ==
    {SchemaDocument([id |-> Property("integer")]), JObj([type |-> JStr("object")])}

\* msgIn is a constructible message, of one of the five variants.
InitCodecMessage ==
    \/ \E stream \in CodecStreams, record \in CodecDocuments,
          timed \in BOOLEAN, version \in 0..MaxVersion :
          msgIn = Some(Message_RECORD(stream, record,
                                      IF timed THEN Some("2020-01-01T00:00:00Z")
                                      ELSE None,
                                      version))
    \/ \E stream \in CodecStreams, schema \in CodecSchemas,
          key_properties \in CodecKeyLists, bookmark_properties \in CodecKeyLists :
          msgIn = Some(Message_SCHEMA(stream, schema, key_properties,
                                      bookmark_properties))
    \/ \E value \in CodecDocuments : msgIn = Some(Message_STATE(value))
    \/ \E stream \in CodecStreams, version \in 0..MaxVersion :
          msgIn = Some(Message_ACTIVATE_VERSION(stream, version))
    \/ \E stream \in CodecStreams, manifest \in {<<>>, <<"file1">>} :
          msgIn = Some(Message_BATCH(stream, manifest, BatchEncoding("jsonl", "gzip")))

\* Lines with a tag that is not a string or not in upper case, and lines
\* that leave out or null one of the optional members.
LineTypeNumber == JObj([type |-> JNum(1), value |-> JObj([id |-> JNum(1)])])
LineTypeLowerCase == JObj([type |-> JStr("record"), stream |-> JStr("s"),
                           record |-> JObj([id |-> JStr("1")])])
LineSchemaNoKeyProperties ==
    JObj([type |-> JStr("SCHEMA"), stream |-> JStr("s"),
          schema |-> SchemaDocument([id |-> Property("string")]),
          bookmark_properties |-> JArr(<<JStr("id")>>)])
LineSchemaNoBookmarkProperties ==
    JObj([type |-> JStr("SCHEMA"), stream |-> JStr("s"),
          schema |-> SchemaDocument([id |-> Property("integer")]),
          key_properties |-> JArr(<<JStr("id")>>)])
LineSchemaNullKeyProperties ==
    JObj([type |-> JStr("SCHEMA"), stream |-> JStr("s"),
          schema |-> SchemaDocument([id |-> Property("string")]),
          key_properties |-> JNull])
LineRecordNoVersion ==
    JObj([type |-> JStr("RECORD"), stream |-> JStr("s"),
          record |-> JObj([id |-> JStr("1")]),
          time_extracted |-> JStr("2020-01-01T00:00:00Z")])
LineRecordNoTimeExtracted ==
    JObj([type |-> JStr("RECORD"), stream |-> JStr("s"),
          record |-> JObj([id |-> JStr("1")]), version |-> JNum(1)])
LineRecordNullTimeExtracted ==
    JObj([type |-> JStr("RECORD"), stream |-> JStr("s"),
          record |-> JObj([id |-> JStr("1")]), time_extracted |-> JNull])

WireLines ==
    Lines \cup {LineTypeNumber, LineTypeLowerCase, LineSchemaNoKeyProperties,
                LineSchemaNoBookmarkProperties, LineSchemaNullKeyProperties,
                LineRecordNoVersion, LineRecordNoTimeExtracted,
                LineRecordNullTimeExtracted}

\* Either a message to encode and decode again, or a line to decode.
InitCodec ==
    /\ \/ /\ InitCodecMessage
          /\ wire = None
       \/ /\ msgIn = None
          /\ wire \in {Some(line) : line \in WireLines}
    /\ decoded = None
    /\ IdleSink /\ IdleTwin /\ IdleDispatch /\ IdleTranslate

\* message.to_string()
Encode ==
    /\ msgIn.some
    /\ ~wire.some
    /\ wire' = Some(to_string(msgIn.v).val)
    /\ UNCHANGED <<msgIn, decoded, sinkVars, twinVars, dispatchVars, translateVars>>

\* Message::from_string(line)
Decode ==
    /\ wire.some
    /\ ~decoded.some
    /\ decoded' = Some(from_string(wire.v))
    /\ UNCHANGED <<msgIn, wire, sinkVars, twinVars, dispatchVars, translateVars>>

NextCodec == Encode \/ Decode

\* One message through to_string and from_string, or one line through
\* from_string.
SpecCodec == InitCodec /\ [][NextCodec]_vars

(***************************************************************************)
(* The schema translation and the construction of a sink, on SCHEMA        *)
(* messages of every shape and on messages that are not SCHEMA.            *)
(***************************************************************************)
ScalarTypeNames == {"string", "integer", "number", "boolean"}

\* What a schema document may hold under a property name: a property of a
\* scalar type, of a type the translation does not know, of a type that is
\* a list of names, a property without `type`, a property that is no object.
PropertyShapes ==
    {Property(type_name) : type_name \in ScalarTypeNames \cup {"array", "object"}}
    \cup {JObj([type |-> JArr(<<JStr("string"), JStr("null")>>)]),
          JObj([format |-> JStr("date-time")]),
          JStr("string")}

\* Schema documents whose `properties` is an object of at most two properties.
DocumentsWithProperties ==
    {SchemaDocument([key \in {} |-> JNull])}
    \cup {SchemaDocument([id |-> p]) : p \in PropertyShapes}
    \cup {SchemaDocument([name |-> p]) : p \in PropertyShapes}
    \cup {SchemaDocument([id |-> p, name |-> q]) : p \in PropertyShapes, q \in PropertyShapes}

\* Schema documents without `properties`, or whose `properties` is no object,
\* and a document that is no object.
DocumentsWithoutProperties ==
    {JObj([type |-> JStr("object")]),
     JObj([type |-> JStr("object"), properties |-> JArr(<<JStr("id")>>)]),
     JObj([type |-> JStr("object"), properties |-> JNull]),
     JNull}

\* One message, not yet translated, no sink constructed from it.
InitTranslate ==
    /\ \/ \E schema \in DocumentsWithProperties \cup DocumentsWithoutProperties :
             schemaIn = Some(Message_SCHEMA("s", schema, <<>>, <<>>))
       \/ schemaIn = Some(Record1)
       \/ schemaIn = Some(StateMessage)
       \/ schemaIn = Some(ActivateVersionMessage)
       \/ schemaIn = Some(BatchMessage)
    /\ translated = None
    /\ constructed = None
    /\ IdleSink /\ IdleTwin /\ IdleDispatch /\ IdleCodec

\* singer_schema_to_arrow(&schema_message)
Translate ==
    /\ ~translated.some
    /\ translated' = Some(singer_schema_to_arrow(schemaIn.v))
    /\ UNCHANGED <<schemaIn, constructed, sinkVars, twinVars, dispatchVars, codecVars>>

\* ParquetSink::new(&schema_message, &base_dir, batch_size)
ConstructSink ==
    /\ ~constructed.some
    /\ \E batch_size \in 0..MaxBatchSize :
          constructed' = Some([kind |-> "ParquetSink",
                               res |-> ParquetSink_new(schemaIn.v, BaseDir, batch_size)])
    /\ UNCHANGED <<schemaIn, translated, sinkVars, twinVars, dispatchVars, codecVars>>

\* ParquetTarget::new(&schema_message, output_path, batch_size)
ConstructTarget ==
    /\ ~constructed.some
    /\ \E batch_size \in 0..MaxBatchSize :
          constructed' = Some([kind |-> "ParquetTarget",
                               res |-> ParquetTarget_new(schemaIn.v, TargetPath,
                                                         batch_size)])
    /\ UNCHANGED <<schemaIn, translated, sinkVars, twinVars, dispatchVars, codecVars>>

NextTranslate == Translate \/ ConstructSink \/ ConstructTarget

\* One message through the translation and through a constructor.
SpecTranslate == InitTranslate /\ [][NextTranslate]_vars

(***************************************************************************)
(* A ParquetSink and a ParquetTarget made of one SCHEMA message and one    *)
(* batch size, driven by the same calls with the same write outcomes.      *)
(***************************************************************************)
InitTwin ==
    /\ kind = "both"
    /\ \E schema_message \in ConstructorMessages, batch_size \in 0..MaxBatchSize :
          LET madeSink == ParquetSink_new(schema_message, BaseDir, batch_size)
              madeTarget == ParquetTarget_new(schema_message, TargetPath, batch_size)
          IN  /\ madeSink.ok
              /\ madeTarget.ok
              /\ sink = madeSink.val
              /\ target = madeTarget.val
              /\ schemaIn = Some(schema_message)
              /\ call = Call("new", ArgKind(schema_message), 0, Ok(0))
    /\ targetRet = Ok(0)
    /\ fs = [p \in Paths |-> AbsentFile]
    /\ targetFs = [p \in Paths |-> AbsentFile]
    /\ added = <<>>
    /\ lastFlushed = None
    /\ flushCalled = FALSE
    /\ writes = <<>>
    /\ targetWrites = <<>>
    /\ translated = None
    /\ constructed = None
    /\ IdleDispatch /\ IdleCodec

\* add_record(record) on both, the write inside it ending the same way.
TwinAddRecord ==
    \E record \in RecordMessages \cup OtherMessages, io \in IoOutcomes :
        /\ record.type = "RECORD" => Len(added) < MaxRecords
        /\ record.type # "RECORD" => io = "none"
        /\ \E outSink \in {ParquetSink_add_record(sink, record, fs, io)},
              outTarget \in {ParquetTarget_add_record(target, record, targetFs, io)} :
           LET isRecord == record.type = "RECORD"
           IN  /\ sink' = outSink.self
               /\ fs' = outSink.fs
               /\ call' = Call("add_record", ArgKind(record),
                               Len(sink.current_batch), outSink.res)
               /\ writes' =
                     IF isRecord /\ outSink.res.ok /\ Len(outSink.self.current_batch) = 0
                     THEN Append(writes, outSink.fs[outSink.self.output_path].batch)
                     ELSE writes
               /\ target' = outTarget.self
               /\ targetFs' = outTarget.fs
               /\ targetRet' = outTarget.res
               /\ targetWrites' =
                     IF isRecord /\ outTarget.res.ok
                                 /\ Len(outTarget.self.current_batch) = 0
                     THEN Append(targetWrites,
                                 outTarget.fs[outTarget.self.output_path].batch)
                     ELSE targetWrites
               /\ added' = IF isRecord THEN Append(added, record) ELSE added
        /\ UNCHANGED <<kind, lastFlushed, flushCalled>>
        /\ UNCHANGED <<dispatchVars, codecVars, translateVars>>

\* flush() on both, the write inside it ending the same way.
TwinFlush ==
    \E io \in IoOutcomes :
        /\ \E outSink \in {ParquetSink_flush(sink, fs, io)},
              outTarget \in {ParquetTarget_flush(target, targetFs, io)} :
               /\ sink' = outSink.self
               /\ fs' = outSink.fs
               /\ call' = Call("flush", "none", Len(sink.current_batch), outSink.res)
               /\ writes' =
                     IF outSink.res.ok /\ Len(sink.current_batch) > 0
                     THEN Append(writes, outSink.fs[outSink.self.output_path].batch)
                     ELSE writes
               /\ target' = outTarget.self
               /\ targetFs' = outTarget.fs
               /\ targetRet' = outTarget.res
               /\ targetWrites' =
                     IF outTarget.res.ok /\ Len(target.current_batch) > 0
                     THEN Append(targetWrites,
                                 outTarget.fs[outTarget.self.output_path].batch)
                     ELSE targetWrites
        /\ flushCalled' = TRUE
        /\ UNCHANGED <<kind, added, lastFlushed>>
        /\ UNCHANGED <<dispatchVars, codecVars, translateVars>>

NextTwin == TwinAddRecord \/ TwinFlush

\* The two drafts side by side.
SpecTwin == InitTwin /\ [][NextTwin]_vars

(***************************************************************************)
(* Vocabulary of the sink's properties.                                    *)
(***************************************************************************)
\* The file at the sink's destination.
Destination == fs[sink.output_path]

\* The last call was add_record with a RECORD message.
AddedRecord == call.op = "add_record" /\ call.arg = "RECORD"

\* The result is an error of the file write (File::create, ArrowWriter).
WriteFailed(ret) == ~ret.ok /\ ret.err \in {"Io", "Parquet"}

\* The record document has a member for every field of the schema.
HasEveryField(record, schema) ==
    \A j \in 1..Len(schema) : ValueGet(record, schema[j].name).some

\* The batch holds one row per message of `records`, in their order, and one
\* column per field of `schema`, in its order: the text of the member where
\* the document has it, a null where it has not.
HoldsRowsOf(batch, records, schema) ==
    /\ batch.num_rows = Len(records)
    /\ Len(batch.columns) = Len(schema)
    /\ \A j \in 1..Len(schema) :
          /\ Len(batch.columns[j].cells) = Len(records)
          /\ \A i \in 1..Len(records) :
                LET member == ValueGet(records[i].record, schema[j].name)
                    cell == batch.columns[j].cells[i]
                IN  IF member.some
                    THEN ~cell.isnull /\ cell.text = ValueToString(member.v)
                    ELSE cell.isnull

C2_BelowThresholdNothingWritten ==
    /\ (Len(added) < sink.batch_size /\ ~flushCalled)
          => /\ Len(sink.current_batch) = Len(added)
             /\ \A p \in Paths : fs[p].state = "absent"
    /\ (/\ Len(added) < sink.batch_size
        /\ call.op = "flush"
        /\ call.pending > 0
        /\ call.ret.ok)
          => /\ Destination.state = "written"
             /\ Destination.batch.num_rows = call.pending

\* Two RECORDs added to a sink of batch size 3: both pending, no file.
C2_Witness ==
    /\ sink.batch_size = 3
    /\ Len(added) = 2
    /\ ~flushCalled
    /\ Len(sink.current_batch) = 2
    /\ Destination.state = "absent"

C4_OmittedFieldIsNull ==
    [][(/\ call'.op = "flush"
        /\ Len(sink.current_batch) > 0
        /\ \A j \in 1..Len(sink.schema) : sink.schema[j].data_type = "Utf8"
        /\ \E i \in 1..Len(sink.current_batch) :
              ~HasEveryField(sink.current_batch[i].record, sink.schema)
        /\ ~WriteFailed(call'.ret))
          => /\ call'.ret.ok
             /\ HoldsRowsOf(fs'[sink.output_path].batch,
                            sink.current_batch, sink.schema)]_vars

(***************************************************************************)
(* C5.  Record values are not type-checked against the declared scalar     *)
(* type: whatever scalar types the schema declares, a flush of records     *)
(* that have every field succeeds unless the file write fails, and the     *)
(* written batch has one column per schema field, in the schema's order,   *)
(* holding the text of each value.                                         *)
(***************************************************************************)
C5_ValuesCoercedToText ==
    [][(/\ call'.op = "flush"
        /\ Len(sink.current_batch) > 0
        /\ \A i \in 1..Len(sink.current_batch) :
              HasEveryField(sink.current_batch[i].record, sink.schema)
        /\ ~WriteFailed(call'.ret))
          => /\ call'.ret.ok
             /\ HoldsRowsOf(fs'[sink.output_path].batch,
                            sink.current_batch, sink.schema)]_vars

(***************************************************************************)
(* C6.  End-to-end content: a sink for the schema with the one string      *)
(* field `id` and batch size 2 that receives the RECORDs with id "1" and   *)
(* then id "2", both calls succeeding, has produced exactly one file, with *)
(* 2 rows, whose `id` column holds the strings' content, 1 and 2, in       *)
(* arrival order.                                                          *)
(***************************************************************************)
C6_EndToEndContent ==
    (/\ sink.schema = <<Field("id", "Utf8", FALSE)>>
     /\ sink.batch_size = 2
     /\ added = <<Record1, Record2>>
     /\ ~flushCalled
     /\ AddedRecord
     /\ call.ret.ok
     /\ lastFlushed = Some(<<Record1, Record2>>))
    => /\ Cardinality({p \in Paths : fs[p].state # "absent"}) = 1
       /\ Destination.state = "written"
       /\ Destination.batch.num_rows = 2
       /\ Len(Destination.batch.columns) = 1
       /\ Destination.batch.columns[1].cells = <<TextCell("1"), TextCell("2")>>

(***************************************************************************)
(* C7.  Overwrite per flush, as amended: a complete file at the            *)
(* destination holds exactly the rows that were pending at the most recent *)
(* successful flush and none of the rows of earlier flushes; a flush that  *)
(* fails after File::create leaves the file truncated, holding no batch.   *)
(***************************************************************************)
C7_CompleteFileHoldsLastFlush ==
    /\ Destination.state = "written"
          => /\ lastFlushed.some
             /\ HoldsRowsOf(Destination.batch, lastFlushed.v, sink.schema)
    /\ (call.op \in {"add_record", "flush"} /\ ~call.ret.ok /\ call.ret.err = "Parquet")
          => Destination.state = "partial"

\* C7 as stated: the destination file, if it exists, holds exactly the rows
\* pending at the most recent successful flush.
C7_FileHoldsLastFlush ==
    Destination.state # "absent"
        => /\ lastFlushed.some
           /\ Destination.state = "written"
           /\ HoldsRowsOf(Destination.batch, lastFlushed.v, sink.schema)

\* The file holds the last flush only: more records were added than the file
\* and the pending batch hold together.
C7_Witness ==
    /\ Destination.state = "written"
    /\ lastFlushed.some
    /\ Destination.batch.num_rows = Len(lastFlushed.v)
    /\ Len(added) > Destination.batch.num_rows + Len(sink.current_batch)

(***************************************************************************)
(* C8.  add_record with a message that is not a RECORD returns success and *)
(* changes nothing: the pending batch and every file stay as they were,    *)
(* whatever the pending count.                                             *)
(***************************************************************************)
C8_NonRecordIgnored ==
    [][(call'.op = "add_record" /\ call'.arg # "RECORD")
          => /\ call'.ret.ok
             /\ sink' = sink
             /\ fs' = fs
             /\ lastFlushed' = lastFlushed]_vars

\* A message that is not a RECORD was passed while the pending count was at the threshold
\* (after a failed flush), and the batch is still pending.
C8_Witness ==
    /\ call.op = "add_record"
    /\ call.arg = "other"
    /\ call.ret.ok
    /\ sink.batch_size >= 1
    /\ call.pending >= sink.batch_size
    /\ Len(sink.current_batch) = call.pending

(***************************************************************************)
(* C9.  flush on an empty pending batch is a no-op: it returns success and *)
(* leaves the sink and every file, created or not, as they were.           *)
(***************************************************************************)
C9_EmptyFlushIsNoOp ==
    [][(call'.op = "flush" /\ Len(sink.current_batch) = 0)
          => /\ call'.ret.ok
             /\ sink' = sink
             /\ fs' = fs]_vars

\* flush was called with nothing pending while a written file existed.
C9_Witness ==
    /\ call.op = "flush"
    /\ call.pending = 0
    /\ call.ret.ok
    /\ Destination.state = "written"

(***************************************************************************)
(* C10.  Dispatch order and uniqueness: for an input whose lines all       *)
(* decode, the dispatcher invokes exactly one hook per line read, the hook *)
(* of the variant the line's tag names, in the order of the lines; when    *)
(* process_lines returns, every line has had its hook.                     *)
(***************************************************************************)
\* The hook the spec assigns to a wire tag.
HookOfTag(tag) ==
    CASE tag = "RECORD" -> "process_record"
      [] tag = "SCHEMA" -> "process_schema"
      [] tag = "STATE" -> "process_state"
      [] tag = "ACTIVATE_VERSION" -> "process_activate_version"
      [] tag = "BATCH" -> "process_batch"

AllLinesDecode == \A i \in 1..Len(input) : from_string(input[i]).ok

C10_OneHookPerLineInOrder ==
    (status # "idle" /\ AllLinesDecode)
    => /\ status # "panicked"
       /\ Len(fired) = cursor - 1
       /\ \A i \in 1..Len(fired) :
             fired[i] = [hook |-> HookOfTag(input[i].v.type.v), line |-> i]
       /\ status = "returned" => Len(fired) = Len(input)

\* process_lines returned from an input of three lines of three variants.
C10_Witness ==
    /\ status = "returned"
    /\ AllLinesDecode
    /\ Len(input) = 3
    /\ Len(fired) = 3
    /\ Cardinality({fired[i].hook : i \in 1..Len(fired)}) = 3

(***************************************************************************)
(* C11.  Fail-fast propagation: when a line of the input fails to decode,  *)
(* process_lines, once it has stopped, has returned the decode failure to  *)
(* its caller as an error result.                                          *)
(***************************************************************************)
\* process_lines is over: it returned or it panicked.
Stopped == status \in {"returned", "panicked"}

C11_DecodeFailureReturned ==
    (Stopped /\ ~AllLinesDecode)
    => /\ status = "returned"
       /\ result.some
       /\ ~result.v.ok
       /\ result.v.err = "Decode"

(***************************************************************************)
(* C12.  No skip-and-continue: if line i is the first line of the input    *)
(* that fails to decode, every hook fired is the hook of one of the lines  *)
(* 1..i-1, in the order of the lines, no hook fires for line i or a later  *)
(* line, and when process_lines has stopped the hooks of the lines 1..i-1  *)
(* have each fired once.                                                   *)
(***************************************************************************)
\* The index of the first line that fails to decode, Len(input) + 1 if none.
FirstFailure ==
    IF AllLinesDecode THEN Len(input) + 1
    ELSE CHOOSE i \in 1..Len(input) :
            /\ ~from_string(input[i]).ok
            /\ \A j \in 1..(i - 1) : from_string(input[j]).ok

C12_NoSkipAndContinue ==
    (status # "idle" /\ ~AllLinesDecode)
    => /\ Len(fired) <= FirstFailure - 1
       /\ \A j \in 1..Len(fired) :
             fired[j] = [hook |-> HookOfTag(input[j].v.type.v), line |-> j]
       /\ Stopped => Len(fired) = FirstFailure - 1

\* The run stopped at a second line that fails to decode, after the hook of
\* the first line, with a line that decodes left unread behind it.
C12_Witness ==
    /\ Stopped
    /\ Len(input) = 3
    /\ FirstFailure = 2
    /\ from_string(input[3]).ok
    /\ Len(fired) = 1

(***************************************************************************)
(* C13.  Round trip: for every constructible Message m of each of the five *)
(* variants, decoding the encoding of m succeeds and yields a Message      *)
(* equal to m.                                                             *)
(***************************************************************************)
C13_RoundTrip ==
    (msgIn.some /\ decoded.some) => (decoded.v.ok /\ decoded.v.val = msgIn.v)

\* A RECORD with time_extracted absent and version 0 went through both.
C13_Witness ==
    /\ msgIn.some
    /\ decoded.some
    /\ msgIn.v.type = "RECORD"
    /\ ~msgIn.v.time_extracted.some
    /\ msgIn.v.version = 0

(***************************************************************************)
(* C14.  Decoding a line (a JSON object) whose `type` member is missing or *)
(* is not one of the five known tags fails with a decode error and yields  *)
(* no Message.                                                             *)
(***************************************************************************)
KnownTags == {"RECORD", "SCHEMA", "STATE", "ACTIVATE_VERSION", "BATCH"}

\* The line is an object without a known tag under "type".
HasNoKnownTag(line) ==
    /\ line.k = "obj"
    /\ \/ "type" \notin DOMAIN line.v
       \/ line.v.type.k # "str"
       \/ line.v.type.v \notin KnownTags

C14_UnknownTagFails ==
    (decoded.some /\ HasNoKnownTag(wire.v))
    => (~decoded.v.ok /\ decoded.v.err = "Decode")

\* A line with the tag "UNKNOWN" was decoded.
C14_Witness ==
    /\ decoded.some
    /\ wire.v = LineUnknown

(***************************************************************************)
(* C15.  Wire defaults: a SCHEMA line without key_properties or without    *)
(* bookmark_properties, valid otherwise, decodes to a SCHEMA with an empty *)
(* list for the absent member; a RECORD line without version, valid        *)
(* otherwise, decodes to version 0, and one without time_extracted to an   *)
(* absent time_extracted.                                                  *)
(***************************************************************************)
\* The line is an object of the given tag that has no member `key` and
\* that decodes once the member is there with the value `filler`.
ValidBut(line, tag, key, filler) ==
    /\ line.k = "obj"
    /\ "type" \in DOMAIN line.v
    /\ line.v.type = JStr(tag)
    /\ key \notin DOMAIN line.v
    /\ from_string(JObj([m \in DOMAIN line.v \cup {key} |->
                            IF m = key THEN filler ELSE line.v[m]])).ok

C15_WireDefaults ==
    decoded.some
    => /\ \A key \in {"key_properties", "bookmark_properties"} :
             ValidBut(wire.v, "SCHEMA", key, JArr(<<>>))
             => (decoded.v.ok /\ decoded.v.val[key] = <<>>)
       /\ ValidBut(wire.v, "RECORD", "version", JNum(0))
             => (decoded.v.ok /\ decoded.v.val.version = 0)
       /\ ValidBut(wire.v, "RECORD", "time_extracted", JStr(""))
             => (decoded.v.ok /\ decoded.v.val.time_extracted = None)

\* A SCHEMA line without either list and with nothing else wrong was
\* decoded.
C15_Witness ==
    /\ decoded.some
    /\ ~msgIn.some
    /\ ValidBut(wire.v, "SCHEMA", "key_properties", JArr(<<>>))
    /\ ValidBut(wire.v, "SCHEMA", "bookmark_properties", JArr(<<>>))

(***************************************************************************)
(* C16.  Schema translation table: for a SCHEMA whose properties each      *)
(* declare one of the four scalar type names, the translation succeeds and *)
(* the schema has exactly one field per property, of type UTF8 for         *)
(* "string", 64-bit signed integer for "integer", 64-bit float for         *)
(* "number" and boolean for "boolean", every field non-nullable.           *)
(***************************************************************************)
\* The message is a SCHEMA whose document has an object under `properties`.
HasPropertiesObject(m) ==
    /\ m.type = "SCHEMA"
    /\ ValueGet(m.schema, "properties").some
    /\ ValueGet(m.schema, "properties").v.k = "obj"

\* The properties of such a message, by name.
PropertiesOf(m) == m.schema.v.properties.v

\* The property has a `type` member.
HasType(prop) == ValueGet(prop, "type").some

\* The property declares one of the four scalar type names.
IsScalar(prop) ==
    /\ HasType(prop)
    /\ prop.v.type.k = "str"
    /\ prop.v.type.v \in ScalarTypeNames

\* The data type the table gives for a scalar type name.
TableType(type_name) ==
    CASE type_name = "string" -> "Utf8"
      [] type_name = "integer" -> "Int64"
      [] type_name = "number" -> "Float64"
      [] type_name = "boolean" -> "Boolean"

AllScalar(m) ==
    /\ HasPropertiesObject(m)
    /\ \A name \in DOMAIN PropertiesOf(m) : IsScalar(PropertiesOf(m)[name])

C16_TranslationTable ==
    (translated.some /\ AllScalar(schemaIn.v))
    => /\ translated.v.ok
       /\ Len(translated.v.val) = Cardinality(DOMAIN PropertiesOf(schemaIn.v))
       /\ \A name \in DOMAIN PropertiesOf(schemaIn.v) :
             \E j \in 1..Len(translated.v.val) :
                translated.v.val[j] =
                    [name |-> name,
                     data_type |-> TableType(PropertiesOf(schemaIn.v)[name].v.type.v),
                     nullable |-> FALSE]

\* A SCHEMA with an integer `id` and a number `name` was translated.
C16_Witness ==
    /\ translated.some
    /\ AllScalar(schemaIn.v)
    /\ DOMAIN PropertiesOf(schemaIn.v) = {"id", "name"}
    /\ PropertiesOf(schemaIn.v)["id"] = Property("integer")
    /\ PropertiesOf(schemaIn.v)["name"] = Property("number")

(***************************************************************************)
(* C17.  Schema translation fails with the schema error, and produces no   *)
(* schema, when the SCHEMA message's `properties` is absent, or is not an  *)
(* object, or any property lacks a `type`; the construction of a sink      *)
(* fails with the same error on the same message and yields no sink.       *)
(***************************************************************************)
\* The message is a SCHEMA whose `properties` is absent or no object, or
\* one of whose properties has no `type`.
HasSchemaDefect(m) ==
    /\ m.type = "SCHEMA"
    /\ \/ ~HasPropertiesObject(m)
       \/ \E name \in DOMAIN PropertiesOf(m) : ~HasType(PropertiesOf(m)[name])

C17_SchemaDefectIsSchemaError ==
    HasSchemaDefect(schemaIn.v)
    => /\ translated.some => (~translated.v.ok /\ translated.v.err = "Schema")
       /\ constructed.some
             => (~constructed.v.res.ok /\ constructed.v.res.err = "Schema")

(***************************************************************************)
(* C18.  A property whose `type` is not one of the four scalar names makes *)
(* the translation fail with the error kind it fails with when             *)
(* `properties` is missing.                                                *)
(***************************************************************************)
\* The message is a SCHEMA whose properties all have a `type`, one of them
\* a type that is no scalar name.
HasUnrecognizedType(m) ==
    /\ HasPropertiesObject(m)
    /\ \A name \in DOMAIN PropertiesOf(m) : HasType(PropertiesOf(m)[name])
    /\ \E name \in DOMAIN PropertiesOf(m) : ~IsScalar(PropertiesOf(m)[name])

\* The error kind of the translation of a SCHEMA without `properties`.
MissingPropertiesError == singer_schema_to_arrow(SchemaNoProperties).err

C18_UnrecognizedTypeIsSchemaError ==
    (translated.some /\ HasUnrecognizedType(schemaIn.v))
    => (~translated.v.ok /\ translated.v.err = MissingPropertiesError)

(***************************************************************************)
(* C19.  The translation and the construction of a sink, given a message   *)
(* that is not a SCHEMA, fail with an error kind that is not the kind of   *)
(* the schema errors, and construct nothing.                               *)
(***************************************************************************)
C19_WrongMessageKindIsDistinct ==
    (schemaIn.some /\ schemaIn.v.type # "SCHEMA")
    => /\ translated.some
             => (~translated.v.ok /\ translated.v.err # MissingPropertiesError)
       /\ constructed.some
             => (~constructed.v.res.ok
                 /\ constructed.v.res.err # MissingPropertiesError)

(***************************************************************************)
(* C20.  Diagnostic counts: whatever part of an input the StatsReader has  *)
(* processed, for every stream its schema counter is the number of SCHEMA  *)
(* messages processed for that stream and its record counter the number of *)
(* RECORD messages processed for that stream, so the counters of the       *)
(* streams sum to the numbers N of SCHEMA and M of RECORD messages; the    *)
(* STATE counter is the number K of STATE messages.  When process_lines    *)
(* has returned, the part processed is the whole input.                    *)
(***************************************************************************)
\* The indices of the lines processed so far: each of them decoded.
Processed == 1..(cursor - 1)

\* The processed lines with the given tag, and those of them of a stream.
WithTag(tag) == {i \in Processed : input[i].v.type.v = tag}
WithTagOf(tag, stream) == {i \in WithTag(tag) : input[i].v.stream.v = stream}

\* The streams named by the lines of the input that decode.
StreamsOfInput ==
    {input[i].v.stream.v :
        i \in {j \in 1..Len(input) :
                  from_string(input[j]).ok /\ "stream" \in DOMAIN input[j].v}}

\* The counter the reader reports for a stream: zeros for a stream it has
\* no entry for.
CounterOf(stream) ==
    IF stream \in DOMAIN reader.streams THEN reader.streams[stream] ELSE Counter_new

RECURSIVE SumOf(_, _)
\* The sum of the `field` counters of the reader over a set of streams.
SumOf(field, streams) ==
    IF streams = {} THEN 0
    ELSE LET stream == CHOOSE x \in streams : TRUE
         IN  reader.streams[stream][field] + SumOf(field, streams \ {stream})

C20_DiagnosticCounts ==
    status # "idle"
    => /\ \A stream \in StreamsOfInput \cup DOMAIN reader.streams :
             /\ CounterOf(stream).schema = Cardinality(WithTagOf("SCHEMA", stream))
             /\ CounterOf(stream).record = Cardinality(WithTagOf("RECORD", stream))
       /\ SumOf("schema", DOMAIN reader.streams) = Cardinality(WithTag("SCHEMA"))
       /\ SumOf("record", DOMAIN reader.streams) = Cardinality(WithTag("RECORD"))
       /\ reader.state.count = Cardinality(WithTag("STATE"))
       /\ status = "returned" => cursor - 1 = Len(input)

\* process_lines returned from an input with a SCHEMA and RECORDs of two
\* streams.
C20_Witness ==
    /\ status = "returned"
    /\ Len(input) = 3
    /\ DOMAIN reader.streams = {"s", "t"}
    /\ reader.streams["s"].schema = 1
    /\ reader.streams["s"].record = 1
    /\ reader.streams["t"].record = 1

(***************************************************************************)
(* C21.  STATE is last-write-wins: whatever part of an input the           *)
(* StatsReader has processed, its last-seen STATE is the value of the last *)
(* STATE message processed, whatever messages come before or after it, and *)
(* is null when no STATE message was processed.  When process_lines has    *)
(* returned, the part processed is the whole input.                        *)
(***************************************************************************)
\* The index of the last STATE line processed, 0 when there is none.
LastStateLine ==
    IF WithTag("STATE") = {} THEN 0
    ELSE CHOOSE i \in WithTag("STATE") : \A j \in WithTag("STATE") : j <= i

C21_LastStateWins ==
    status # "idle"
    => /\ reader.state.last_seen =
             (IF LastStateLine = 0 THEN JNull ELSE input[LastStateLine].v.value)
       /\ status = "returned" => cursor - 1 = Len(input)

\* process_lines returned from an input with two STATE lines of different
\* values and a line of another kind after them.
C21_Witness ==
    /\ status = "returned"
    /\ Len(input) = 3
    /\ input[1].v.type.v = "STATE"
    /\ input[2].v.type.v = "STATE"
    /\ input[1] # input[2]
    /\ input[3].v.type.v # "STATE"

(***************************************************************************)
(* C22.  Pending-count bound, as amended: in every state reached after a   *)
(* flush call or an add_record call with a RECORD message that returned    *)
(* success, the pending count is strictly less than max(batch_size, 1); it *)
(* is 0 after every successful flush, and with batch_size 0 or 1 every     *)
(* successfully added RECORD is flushed in the same call.                  *)
(***************************************************************************)
\* max(batch_size, 1)
Threshold == IF sink.batch_size >= 1 THEN sink.batch_size ELSE 1

C22_PendingBelowThreshold ==
    ((AddedRecord \/ call.op = "flush") /\ call.ret.ok)
    => /\ Len(sink.current_batch) < Threshold
       /\ call.op = "flush" => Len(sink.current_batch) = 0
       /\ sink.batch_size <= 1 => Len(sink.current_batch) = 0

\* C22 as stated: the bound after every add_record or flush call that
\* returned success, an add_record call with a message that is no RECORD
\* included.
C22_PendingBelowThresholdAnyCall ==
    (call.op \in {"add_record", "flush"} /\ call.ret.ok)
    => Len(sink.current_batch) < Threshold

\* With batch_size 1, a RECORD was added with success and flushed by the
\* same call.
C22_Witness ==
    /\ AddedRecord
    /\ call.ret.ok
    /\ sink.batch_size = 1
    /\ call.pending = 0
    /\ Len(sink.current_batch) = 0
    /\ Destination.state = "written"

(***************************************************************************)
(* C23.  No loss, no duplication: after any sequence of add_record and     *)
(* flush calls (those in which every write succeeds among them), the rows  *)
(* of the batches written by the successive flushes, one after the other,  *)
(* followed by the records still pending, are the RECORD messages passed   *)
(* to add_record, in arrival order, each exactly once.                     *)
(***************************************************************************)
\* The rows of a batch: row i is the sequence of the cells at i of its
\* columns.
RowsOfBatch(batch) ==
    [i \in 1..batch.num_rows |->
        [j \in 1..Len(batch.columns) |-> batch.columns[j].cells[i]]]

\* The rows a batch has for the given messages under the schema.
RowsOfRecords(records, schema) ==
    [i \in 1..Len(records) |->
        [j \in 1..Len(schema) |-> AppendedCell(records[i].record, schema[j].name)]]

RECURSIVE RowsOfBatches(_)
\* The rows of a sequence of batches, one batch after the other.
RowsOfBatches(batches) ==
    IF Len(batches) = 0 THEN <<>>
    ELSE RowsOfBatch(batches[1]) \o RowsOfBatches(Tail(batches))

\* The number of added records that are pending no more.
Drained == Len(added) - Len(sink.current_batch)

C23_NoLossNoDuplication ==
    /\ Drained >= 0
    /\ sink.current_batch = SubSeq(added, Drained + 1, Len(added))
    /\ RowsOfBatches(writes) = RowsOfRecords(SubSeq(added, 1, Drained), sink.schema)

\* Two flushes wrote two batches and a third record is pending.
C23_Witness ==
    /\ Len(writes) = 2
    /\ Len(added) = 3
    /\ Len(sink.current_batch) = 1
    /\ call.ret.ok

(***************************************************************************)
(* C24.  A failed implicit flush does not drop the triggering record: when *)
(* add_record of a RECORD returns an error, the record is the last of the  *)
(* pending batch, after the records that were pending before; an           *)
(* add_record of a RECORD that finds the batch at or above the threshold   *)
(* flushes again (it fails, or it leaves nothing pending), and a flush     *)
(* that succeeds writes all the accumulated records in one batch, which    *)
(* can hold more than batch_size rows.                                     *)
(***************************************************************************)
\* The last n messages passed to add_record.
LastAdded(n) == SubSeq(added, Len(added) - n + 1, Len(added))

C24_FailedImplicitFlushKeepsRecord ==
    /\ (AddedRecord /\ ~call.ret.ok)
          => /\ Len(sink.current_batch) = call.pending + 1
             /\ sink.current_batch = LastAdded(call.pending + 1)
    /\ (AddedRecord /\ call.pending >= sink.batch_size /\ call.ret.ok)
          => /\ Len(sink.current_batch) = 0
             /\ Destination.state = "written"
             /\ HoldsRowsOf(Destination.batch, LastAdded(call.pending + 1), sink.schema)
    /\ (call.op = "flush" /\ call.pending > 0 /\ call.ret.ok)
          => /\ Len(sink.current_batch) = 0
             /\ Destination.state = "written"
             /\ HoldsRowsOf(Destination.batch, LastAdded(call.pending), sink.schema)

\* After a failed implicit flush, an add_record flushed with success a
\* batch of more rows than batch_size.
C24_Witness ==
    /\ AddedRecord
    /\ call.ret.ok
    /\ sink.batch_size >= 1
    /\ call.pending >= sink.batch_size
    /\ Destination.state = "written"
    /\ Destination.batch.num_rows > sink.batch_size

(***************************************************************************)
(* C25.  The sink does not filter by stream: add_record of a RECORD whose  *)
(* stream is not the stream of any SCHEMA a sink is constructed from       *)
(* appends it to the pending batch like any other; it counts toward        *)
(* batch_size (the call that brings the batch to the threshold flushes),   *)
(* and a flush that succeeds writes it as a row of the sink's file.        *)
(***************************************************************************)
\* The RECORDs of a stream that no constructing SCHEMA names.
ForeignRecords ==
    {r \in RecordMessages :
        \A m \in ConstructorMessages : m.type = "SCHEMA" => m.stream # r.stream}

\* The last call was add_record of a RECORD of a foreign stream.
AddedForeignRecord == AddedRecord /\ added[Len(added)] \in ForeignRecords

C25_NoStreamFilter ==
    /\ AddedForeignRecord =>
          IF Len(sink.current_batch) > 0
          THEN /\ sink.current_batch = LastAdded(call.pending + 1)
               /\ (call.pending + 1 >= sink.batch_size) => ~call.ret.ok
          ELSE /\ call.ret.ok
               /\ call.pending + 1 >= sink.batch_size
               /\ Destination.state = "written"
               /\ HoldsRowsOf(Destination.batch, LastAdded(call.pending + 1), sink.schema)
    /\ (call.op = "flush" /\ call.ret.ok /\ call.pending > 0)
          => /\ Destination.state = "written"
             /\ Destination.batch.num_rows = call.pending
             /\ RowsOfBatch(Destination.batch)
                   = RowsOfRecords(LastAdded(call.pending), sink.schema)

\* A RECORD of a foreign stream brought the batch to the threshold, and the
\* file holds it as a row after a row of a RECORD of the sink's stream.
C25_Witness ==
    /\ AddedForeignRecord
    /\ call.ret.ok
    /\ call.pending >= 1
    /\ sink.batch_size = call.pending + 1
    /\ Len(sink.current_batch) = 0
    /\ Destination.state = "written"
    /\ Destination.batch.num_rows = call.pending + 1
    /\ \E i \in 1..call.pending : LastAdded(call.pending + 1)[i] \notin ForeignRecords

(***************************************************************************)
(* C26.  The two sink drafts are one design: a ParquetSink and a           *)
(* ParquetTarget made of the same SCHEMA message and batch size and driven *)
(* by the same add_record and flush calls with the same write outcomes     *)
(* return the same result at every step, hold the same pending batch after *)
(* every step and write the same batches; they differ only in the          *)
(* destination, <base_dir>/<stream>.parquet for the sink and the given     *)
(* path for the target.                                                    *)
(***************************************************************************)
C26_TwoDraftsOneDesign ==
    /\ targetRet = call.ret
    /\ target.current_batch = sink.current_batch
    /\ targetWrites = writes
    /\ targetFs[target.output_path] = fs[sink.output_path]
    /\ [target EXCEPT !.output_path = sink.output_path] = sink
    /\ sink.output_path = BaseDir \o "/" \o schemaIn.v.stream \o ".parquet"
    /\ target.output_path = TargetPath
    /\ \A p \in Paths \ {sink.output_path} : fs[p] = AbsentFile
    /\ \A p \in Paths \ {target.output_path} : targetFs[p] = AbsentFile

\* Both wrote a batch of two rows or more to their own destinations, and a
\* later call failed on both.
C26_Witness ==
    /\ kind = "both"
    /\ Len(writes) >= 1
    /\ Len(targetWrites) >= 1
    /\ fs[sink.output_path].state = "written"
    /\ fs[sink.output_path].batch.num_rows >= 2
    /\ targetFs[target.output_path].state = "written"
    /\ sink.output_path # target.output_path
    /\ ~call.ret.ok
    /\ ~targetRet.ok

=============================================================================
